---- MODULE Spec2Model ----
(***************************************************************************)
(* Verification model of the DIAL chat client:                             *)
(*   task/app.py                   the chat loop controller (start)        *)
(*   task/clients/client.py        DialClient, built on aidial_client      *)
(*   task/clients/custom_client.py DialClient, hand-written HTTP/SSE       *)
(* Text is a sequence of one-character strings.  The wire alphabet is      *)
(* ASCII, on which bytes.decode('utf-8') maps every byte to the character  *)
(* of the same code.                                                       *)
(***************************************************************************)
EXTENDS Integers, Sequences, FiniteSets, TLC

VARIABLES
    state,       \* controller: Start, AwaitingInput, AwaitingCompletion, Closed, Crashed
    messages,    \* conversation.messages, the ledger
    stream,      \* start(stream): TRUE selects stream_completion
    client,      \* "DialClient" (client.py) or "CustomDialClient" (custom_client.py)
    turn,        \* number of turns started so far
    before,      \* history: the ledger when the current turn started
    typed,       \* history: the last line input() returned
    stdin,       \* the console: open, or closed (input() meets end of file)
    pc,          \* position inside the completion call
    menu,        \* the frames the remote endpoint may send
    quota,       \* frames the endpoint may still send in this call
    sent,        \* history: what the endpoint has sent in this call (frames, or the body)
    pipe,        \* bytes sent and still in flight to the client
    closing,     \* the endpoint's side: open, closed, or cut (closed inside a line)
    buffer,      \* aiohttp StreamReader: bytes received and not yet read
    lost,        \* the connection broke during this call
    status,      \* response.status of the current call (0: no response)
    contents,    \* the list of collected content snippets
    connection,  \* the response of session.post: none, open, closed
    session,     \* the aiohttp.ClientSession: none, open, closed
    outcome,     \* how the last call ended: none, returned, raised
    error        \* the exception of a raised call, "" otherwise

vars == <<state, messages, stream, client, turn, before, typed, stdin, pc, menu, quota, sent, pipe,
          closing, buffer, lost, status, contents, connection, session, outcome,
          error>>

----------------------------------------------------------------------------
(* Bounds of the model *)

\* turns of the chat loop explored in Spec
MaxTurns == 2
\* frames the endpoint sends in one streaming call explored in SpecStream
MaxFrames == 3
\* frames the endpoint sends in one streaming call explored in Spec
TurnFrames == 1
\* complete lines that may wait unread in the reader when the endpoint sends on
MaxUnread == 1

----------------------------------------------------------------------------
(* Text *)

LF == "\n"
CR == "\r"
Whitespace == {" ", LF, CR, "\t"}

RECURSIVE Flatten(_)
Flatten(ss) == IF ss = <<>> THEN <<>> ELSE Head(ss) \o Flatten(Tail(ss))

\* str.strip()
RECURSIVE LStrip(_)
LStrip(s) == IF s # <<>> /\ Head(s) \in Whitespace THEN LStrip(Tail(s)) ELSE s

RECURSIVE RStrip(_)
RStrip(s) ==
    IF s # <<>> /\ s[Len(s)] \in Whitespace THEN RStrip(SubSeq(s, 1, Len(s) - 1)) ELSE s

\* variant: the text is taken as it is
Untrimmed(s) == s

\* str.strip()
Strip(s) == RStrip(LStrip(s))

\* str.startswith(p)
StartsWith(s, p) == Len(s) >= Len(p) /\ SubSeq(s, 1, Len(p)) = p

\* p in s, for strings
SubstringOf(p, s) ==
    \E i \in 0..(Len(s) - Len(p)) : SubSeq(s, i + 1, i + Len(p)) = p

\* the literal 'data: ' and the sentinel '[DONE]'
PREFIX == <<"d", "a", "t", "a", ":", " ">>

DONE == <<"[", "D", "O", "N", "E", "]">>

\* payload and line texts the endpoint sends
TxtHel ==
    <<"{", "\"", "c", "h", "o", "i", "c", "e", "s", "\"", ":", "[", "{", "\"", "d",
     "e", "l", "t", "a", "\"", ":", "{", "\"", "c", "o", "n", "t", "e", "n", "t", "\"",
     ":", "\"", "H", "e", "l", "\"", "}", "}", "]", "}">>

TxtLo ==
    <<"{", "\"", "c", "h", "o", "i", "c", "e", "s", "\"", ":", "[", "{", "\"", "d",
     "e", "l", "t", "a", "\"", ":", "{", "\"", "c", "o", "n", "t", "e", "n", "t", "\"",
     ":", "\"", "l", "o", "\"", "}", "}", "]", "}">>

TxtWorld ==
    <<"{", "\"", "c", "h", "o", "i", "c", "e", "s", "\"", ":", "[", "{", "\"", "d",
     "e", "l", "t", "a", "\"", ":", "{", "\"", "c", "o", "n", "t", "e", "n", "t", "\"",
     ":", "\"", " ", "w", "o", "r", "l", "d", "\"", "}", "}", "]", "}">>

TxtEmptyContent ==
    <<"{", "\"", "c", "h", "o", "i", "c", "e", "s", "\"", ":", "[", "{", "\"", "d",
     "e", "l", "t", "a", "\"", ":", "{", "\"", "c", "o", "n", "t", "e", "n", "t", "\"",
     ":", "\"", "\"", "}", "}", "]", "}">>

TxtNullContent ==
    <<"{", "\"", "c", "h", "o", "i", "c", "e", "s", "\"", ":", "[", "{", "\"", "d",
     "e", "l", "t", "a", "\"", ":", "{", "\"", "c", "o", "n", "t", "e", "n", "t", "\"",
     ":", "n", "u", "l", "l", "}", "}", "]", "}">>

TxtRole ==
    <<"{", "\"", "c", "h", "o", "i", "c", "e", "s", "\"", ":", "[", "{", "\"", "d",
     "e", "l", "t", "a", "\"", ":", "{", "\"", "r", "o", "l", "e", "\"", ":", "\"", "a",
     "s", "s", "i", "s", "t", "a", "n", "t", "\"", "}", "}", "]", "}">>

TxtNoDelta ==
    <<"{", "\"", "c", "h", "o", "i", "c", "e", "s", "\"", ":", "[", "{", "\"", "i",
     "n", "d", "e", "x", "\"", ":", "0", "}", "]", "}">>

TxtEmptyChoices ==
    <<"{", "\"", "c", "h", "o", "i", "c", "e", "s", "\"", ":", "[", "]", "}">>

TxtNoChoices ==
    <<"{", "\"", "i", "d", "\"", ":", "\"", "1", "\"", "}">>

TxtNumber ==
    <<"1">>

TxtMalformed ==
    <<"{", "\"", "c", "h", "o", "i", "c", "e", "s", "\"", ":", "[", "{", "\"", "d",
     "e", "l">>

TxtPing ==
    <<":", " ", "p", "i", "n", "g">>

----------------------------------------------------------------------------
(* Python values, as json.loads builds them *)

PyNone == [t |-> "none", v |-> <<>>]
PyInt(n) == [t |-> "int", v |-> n]
PyStr(s) == [t |-> "str", v |-> s]
PyList(xs) == [t |-> "list", v |-> xs]
PyDict(f) == [t |-> "dict", v |-> f]

\* the text of a dictionary key
KeyText(key) ==
    CASE key = "choices" -> <<"c", "h", "o", "i", "c", "e", "s">>
      [] key = "delta" -> <<"d", "e", "l", "t", "a">>
      [] key = "content" -> <<"c", "o", "n", "t", "e", "n", "t">>
      [] key = "message" -> <<"m", "e", "s", "s", "a", "g", "e">>
      [] OTHER -> <<key>>

DeltaChunk(content) ==
    PyDict("choices" :> PyList(<<PyDict("delta" :> PyDict("content" :> content))>>))

\* json.loads(text): the parsed value, or JSONDecodeError for any text that
\* is not one of the JSON documents of the wire alphabet
JsonLoads(text) ==
    LET doc == Strip(text)
        Ok(val) == [ok |-> TRUE, val |-> val]
    IN  CASE doc = TxtHel -> Ok(DeltaChunk(PyStr(<<"H", "e", "l">>)))
          [] doc = TxtLo -> Ok(DeltaChunk(PyStr(<<"l", "o">>)))
          [] doc = TxtWorld -> Ok(DeltaChunk(PyStr(<<" ", "w", "o", "r", "l", "d">>)))
          [] doc = TxtEmptyContent -> Ok(DeltaChunk(PyStr(<<>>)))
          [] doc = TxtNullContent -> Ok(DeltaChunk(PyNone))
          [] doc = TxtRole ->
                Ok(PyDict("choices" :> PyList(<<PyDict("delta" :>
                    PyDict("role" :> PyStr(<<"a", "s", "s", "i", "s", "t", "a", "n", "t">>)))>>)))
          [] doc = TxtNoDelta ->
                Ok(PyDict("choices" :> PyList(<<PyDict("index" :> PyInt(0))>>)))
          [] doc = TxtEmptyChoices -> Ok(PyDict("choices" :> PyList(<<>>)))
          [] doc = TxtNoChoices -> Ok(PyDict("id" :> PyStr(<<"1">>)))
          [] doc = TxtNumber -> Ok(PyInt(1))
          [] OTHER -> [ok |-> FALSE, val |-> PyNone]

\* key in x: "true", "false", or the exception Python raises
PyIn(key, x) ==
    CASE x.t = "dict" -> IF key \in DOMAIN x.v THEN "true" ELSE "false"
      [] x.t = "list" ->
            IF \E i \in DOMAIN x.v : x.v[i].t = "str" /\ x.v[i].v = KeyText(key)
            THEN "true" ELSE "false"
      [] x.t = "str" -> IF SubstringOf(KeyText(key), x.v) THEN "true" ELSE "false"
      [] OTHER -> "TypeError"

\* x[key] for a string key
PyItem(x, key) ==
    CASE x.t = "dict" ->
            IF key \in DOMAIN x.v THEN [exc |-> "", val |-> x.v[key]]
            ELSE [exc |-> "KeyError", val |-> PyNone]
      [] OTHER -> [exc |-> "TypeError", val |-> PyNone]

\* len(x)
PyLen(x) ==
    CASE x.t \in {"list", "str"} -> [exc |-> "", val |-> Len(x.v)]
      [] x.t = "dict" -> [exc |-> "", val |-> Cardinality(DOMAIN x.v)]
      [] OTHER -> [exc |-> "TypeError", val |-> 0]

\* x[0], for x with len(x) > 0
PyFirst(x) ==
    CASE x.t = "list" -> [exc |-> "", val |-> x.v[1]]
      [] x.t = "str" -> [exc |-> "", val |-> PyStr(<<x.v[1]>>)]
      [] x.t = "dict" -> [exc |-> "KeyError", val |-> PyNone]
      [] OTHER -> [exc |-> "TypeError", val |-> PyNone]

\* x.get(key, {})
PyGet(x, key) ==
    CASE x.t = "dict" ->
            [exc |-> "", val |-> IF key \in DOMAIN x.v THEN x.v[key] ELSE PyDict(<<>>)]
      [] OTHER -> [exc |-> "AttributeError", val |-> PyNone]

\* "".join(contents)
Join(cs) ==
    IF \E i \in DOMAIN cs : cs[i].t # "str"
    THEN [exc |-> "TypeError", val |-> <<>>]
    ELSE [exc |-> "", val |-> Flatten([i \in DOMAIN cs |-> cs[i].v])]

----------------------------------------------------------------------------
(* The remote endpoint: the frames it sends, one line of the event stream each *)

DataFrames ==
    {"Hel", "Lo", "World", "EmptyContent", "NullContent", "Role", "NoDelta",
     "EmptyChoices", "NoChoices", "Number", "Malformed"}

Frames == DataFrames \cup {"Done", "DoneCRLF", "Blank", "Ping", "BareDone"}

PayloadOf(k) ==
    CASE k = "Hel" -> TxtHel
      [] k = "Lo" -> TxtLo
      [] k = "World" -> TxtWorld
      [] k = "EmptyContent" -> TxtEmptyContent
      [] k = "NullContent" -> TxtNullContent
      [] k = "Role" -> TxtRole
      [] k = "NoDelta" -> TxtNoDelta
      [] k = "EmptyChoices" -> TxtEmptyChoices
      [] k = "NoChoices" -> TxtNoChoices
      [] k = "Number" -> TxtNumber
      [] k = "Malformed" -> TxtMalformed

\* the bytes of a frame on the wire, line terminator included
LineOf(k) ==
    CASE k \in DataFrames -> PREFIX \o PayloadOf(k) \o <<LF>>
      [] k = "Done" -> PREFIX \o DONE \o <<LF>>
      [] k = "DoneCRLF" -> PREFIX \o DONE \o <<CR, LF>>
      [] k = "Blank" -> <<LF>>
      [] k = "Ping" -> TxtPing \o <<LF>>
      [] k = "BareDone" -> DONE \o <<LF>>

\* the same frame cut off before its line terminator
CutLineOf(k) == SubSeq(LineOf(k), 1, Len(LineOf(k)) - 1)

\* HTTP statuses the endpoint answers with
Statuses == {200, 401, 500}

----------------------------------------------------------------------------
(* custom_client.py: DialClient.stream_completion, the read loop *)

Continue(cs) == [ctl |-> "continue", contents |-> cs, exc |-> ""]
Break(cs) == [ctl |-> "break", contents |-> cs, exc |-> ""]
Raise(e, cs) == [ctl |-> "raise", contents |-> cs, exc |-> e]

\* variant: the new snippet is put in front of the list
CollectFirst(cs, content_chunk) == <<content_chunk>> \o cs

\* contents.append(content_chunk)
Collect(cs, content_chunk) == Append(cs, content_chunk)

\* the body of the try block: extract the content of a parsed chunk
ExtractContent(chunk_json, cs) ==
    LET has == PyIn("choices", chunk_json) IN
    IF has = "TypeError" THEN Raise("TypeError", cs)
    ELSE IF has = "false" THEN Continue(cs)
    ELSE
    LET choices == PyItem(chunk_json, "choices") IN
    IF choices.exc # "" THEN Raise(choices.exc, cs)
    ELSE
    LET n == PyLen(choices.val) IN
    IF n.exc # "" THEN Raise(n.exc, cs)
    ELSE IF ~(n.val > 0) THEN Continue(cs)
    ELSE
    LET first == PyFirst(choices.val) IN
    IF first.exc # "" THEN Raise(first.exc, cs)
    ELSE
    LET delta == PyGet(first.val, "delta") IN
    IF delta.exc # "" THEN Raise(delta.exc, cs)
    ELSE
    LET hasContent == PyIn("content", delta.val) IN
    IF hasContent = "TypeError" THEN Raise("TypeError", cs)
    ELSE IF hasContent = "false" THEN Continue(cs)
    ELSE
    LET content_chunk == PyItem(delta.val, "content") IN
    IF content_chunk.exc # "" THEN Raise(content_chunk.exc, cs)
    ELSE Continue(Collect(cs, content_chunk.val))

\* variant: the decode error is not caught
OnJSONDecodeErrorRaise(cs) == Raise("JSONDecodeError", cs)

\* except json.JSONDecodeError: continue
OnJSONDecodeError(cs) == Continue(cs)

\* variant: the sentinel does not leave the loop
OnDoneContinue(cs) == Continue(cs)

\* if data_content == '[DONE]': break
OnDone(cs) == Break(cs)

\* variant: a line that is no data frame ends the loop
OnNonDataBreak(cs) == Break(cs)

\* lines 103-107: an empty line is skipped by continue, a line without the
\* prefix falls through to the next iteration
OnNonData(cs) == Continue(cs)

\* one iteration of the loop body on the line the reader returned
ProcessLine(line, cs) ==
    LET line_str == Strip(line) IN
    IF line_str = <<>> THEN OnNonData(cs)
    ELSE IF ~StartsWith(line_str, PREFIX) THEN OnNonData(cs)
    ELSE
    LET data_content == SubSeq(line_str, 7, Len(line_str)) IN
    IF data_content = DONE THEN OnDone(cs)
    ELSE
    LET parsed == JsonLoads(data_content) IN
    IF ~parsed.ok THEN OnJSONDecodeError(cs)
    ELSE ExtractContent(parsed.val, cs)

\* position of the first line feed of buf, 0 if there is none
FirstLF(buf) ==
    LET feeds == {i \in DOMAIN buf : buf[i] = LF} IN
    IF feeds = {} THEN 0 ELSE CHOOSE i \in feeds : \A j \in feeds : i <= j

\* variant: a reader that hands over the bytes received so far as a line,
\* whether or not their line feed has arrived
ReadlineNoHoldBack(buf, atEof) ==
    LET i == FirstLF(buf) IN
    IF i > 0
    THEN [ready |-> TRUE, line |-> SubSeq(buf, 1, i), rest |-> SubSeq(buf, i + 1, Len(buf))]
    ELSE [ready |-> buf # <<>> \/ atEof, line |-> buf, rest |-> <<>>]

\* async for line in response.content: aiohttp's StreamReader.readline on the
\* bytes received so far.  A line is returned once its line feed has arrived;
\* without one the reader waits, and at EOF it returns what is left (b'' ends
\* the iteration).
Readline(buf, atEof) ==
    LET i == FirstLF(buf) IN
    IF i > 0
    THEN [ready |-> TRUE, line |-> SubSeq(buf, 1, i), rest |-> SubSeq(buf, i + 1, Len(buf))]
    ELSE [ready |-> atEof, line |-> buf, rest |-> <<>>]

----------------------------------------------------------------------------
(* Message, Conversation *)

Message(role, content) == [role |-> role, content |-> content]

\* variant: the message is put in front of the list
add_message_first(msgs, message) == <<message>> \o msgs

\* Conversation.add_message
add_message(msgs, message) == Append(msgs, message)

\* variant: pop(0), the oldest message is removed
PopFirst(msgs) == Tail(msgs)

\* conversation.messages.pop()
Rollback(msgs) == SubSeq(msgs, 1, Len(msgs) - 1)

DEFAULT_SYSTEM_PROMPT == <<"d", "e", "f", "a", "u", "l", "t">>

----------------------------------------------------------------------------
(* app.py: start, the end of a turn *)

Clients == {"DialClient", "CustomDialClient"}

\* variant: the handler leaves the ledger as it is
OnExceptionKeep(msgs) == msgs

\* except Exception as e: the ledger the handler leaves
OnException(msgs) == Rollback(msgs)

\* the classes of the exceptions the calls and the console raise; all of
\* them derive from Exception
ExceptionClasses ==
    {"Exception", "TypeError", "KeyError", "IndexError", "AttributeError",
     "JSONDecodeError", "ConnectionError", "ClientConnectorError",
     "ClientPayloadError", "APIError", "APIStatusError", "APIConnectionError",
     "EOFError"}

\* variant: the handler takes only the errors the clients raise themselves
CatchesRaisedByClient(exc) == exc = "Exception"

\* except Exception as e: the handler takes every class derived from Exception
Catches(exc) == exc \in ExceptionClasses

\* variant: building the request takes the messages out of the list
AfterRequestDrained(msgs) == <<>>

\* [msg.to_dict() for msg in messages]: the list the client was handed, after
\* the request was built from it; the comprehension only reads it
AfterRequest(msgs) == msgs

\* lines 57-71: the call, which left the ledger as msgs, returned result.val
\* or raised result.exc
EndCallOn(msgs, result) ==
    /\ outcome' = IF result.exc = "" THEN "returned" ELSE "raised"
    /\ error' = result.exc
    /\ IF result.exc = ""
       THEN /\ messages' = add_message(msgs, Message("assistant", result.val))
            /\ state' = "AwaitingInput"
       ELSE IF ~Catches(result.exc) \/ msgs = <<>>
       THEN /\ messages' = msgs
            /\ state' = "Crashed"
       ELSE /\ messages' = OnException(msgs)
            /\ state' = "AwaitingInput"
    /\ pc' = "idle"

\* the end of a call that was given the ledger earlier
EndCall(result) == EndCallOn(messages, result)

----------------------------------------------------------------------------
(* Non-streaming responses *)

Bodies == {"Reply", "EmptyChoices", "ErrorBody", "NotJson"}

ReplyText == <<"H", "i", "!">>

\* response.json()
BodyJson(b) ==
    CASE b = "Reply" ->
            [ok |-> TRUE,
             val |-> PyDict("choices" :> PyList(<<PyDict("message" :>
                        PyDict("content" :> PyStr(ReplyText)))>>))]
      [] b = "EmptyChoices" -> [ok |-> TRUE, val |-> PyDict("choices" :> PyList(<<>>))]
      [] b = "ErrorBody" -> [ok |-> TRUE, val |-> PyDict("error" :> PyStr(<<"n", "o">>))]
      [] b = "NotJson" -> [ok |-> FALSE, val |-> PyNone]

\* x[0]
PyIndex0(x) ==
    IF x.t \in {"list", "str"} /\ Len(x.v) = 0
    THEN [exc |-> "IndexError", val |-> PyNone]
    ELSE PyFirst(x)

\* custom_client.py get_completion on a response (connected: requests.post returned)
CustomGetCompletion(connected, code, b) ==
    LET Fail(e) == [exc |-> e, val |-> <<>>]
        json == BodyJson(b)
    IN  IF ~connected THEN Fail("ConnectionError")
        ELSE IF ~json.ok THEN Fail("JSONDecodeError")
        ELSE IF code # 200 THEN Fail("Exception")
        ELSE
        LET choices == PyItem(json.val, "choices") IN
        IF choices.exc # "" THEN Fail(choices.exc)
        ELSE
        LET first == PyIndex0(choices.val) IN
        IF first.exc # "" THEN Fail(first.exc)
        ELSE
        LET message == PyItem(first.val, "message") IN
        IF message.exc # "" THEN Fail(message.exc)
        ELSE
        LET content == PyItem(message.val, "content") IN
        IF content.exc # "" THEN Fail(content.exc)
        ELSE [exc |-> "", val |-> content.val.v]

\* self._client.chat.completions.create: the library raises on a failed
\* connection, a non-success status and a body that is no completion
LibCreate(connected, code, b) ==
    IF ~connected THEN [exc |-> "APIConnectionError", val |-> PyNone]
    ELSE IF code # 200 THEN [exc |-> "APIStatusError", val |-> PyNone]
    ELSE IF b \notin {"Reply", "EmptyChoices"} THEN [exc |-> "APIError", val |-> PyNone]
    ELSE [exc |-> "", val |-> BodyJson(b).val]

\* if not response.choices
NoChoices(choices) == choices.v = <<>>

\* variant: no check of the choices, an empty list gives an empty message
LibMessageOfUnchecked(response) ==
    IF response.exc # "" THEN [exc |-> response.exc, val |-> <<>>]
    ELSE IF response.val.v["choices"].v = <<>> THEN [exc |-> "", val |-> <<>>]
    ELSE [exc |-> "", val |-> response.val.v["choices"].v[1].v["message"].v["content"].v]

\* client.py get_completion, lines 34-45: the message built from the response
LibMessageOf(response) ==
    LET Fail(e) == [exc |-> e, val |-> <<>>] IN
    IF response.exc # "" THEN Fail(response.exc)
    ELSE
    LET choices == response.val.v["choices"] IN
    IF NoChoices(choices) THEN Fail("Exception")
    ELSE [exc |-> "", val |-> choices.v[1].v["message"].v["content"].v]

\* client.py get_completion
LibGetCompletion(connected, code, b) == LibMessageOf(LibCreate(connected, code, b))

----------------------------------------------------------------------------
(* app.py: start, reading the console *)

Lower(c) ==
    CASE c = "E" -> "e" [] c = "X" -> "x" [] c = "I" -> "i" [] c = "T" -> "t"
      [] c = "H" -> "h" [] OTHER -> c

\* variant: the text is compared as it was typed
AsTyped(s) == s

\* str.lower()
lower(s) == [i \in DOMAIN s |-> Lower(s[i])]

EXIT == <<"e", "x", "i", "t">>

\* what the user may type at a prompt
InputTexts ==
    {<<>>, <<" ">>, <<" ", "H", "i", " ">>, <<"e", "x", "i", "t">>,
     <<" ", "E", "x", "i", "T">>}

\* what the user may answer when asked for the system prompt
PromptTexts == {<<>>, <<" ">>, <<"B", "e", " ", "b", "r", "i", "e", "f", " ">>}

callVars == <<menu, quota, sent, pipe, closing, buffer, lost, status, contents,
              connection, session, outcome, error>>

NewCall ==
    /\ sent' = <<>>
    /\ pipe' = <<>>
    /\ closing' = "open"
    /\ buffer' = <<>>
    /\ lost' = FALSE
    /\ status' = 0
    /\ contents' = <<>>
    /\ connection' = "none"
    /\ session' = "none"
    /\ outcome' = "none"
    /\ error' = ""

\* lines 25-34: the system prompt is read and added to the conversation
SystemPrompt(text) ==
    /\ state = "Start"
    /\ LET system_prompt_input == Strip(text)
           system_prompt ==
               IF system_prompt_input # <<>> THEN system_prompt_input
               ELSE DEFAULT_SYSTEM_PROMPT
       IN  messages' = add_message(messages, Message("system", system_prompt))
    /\ state' = "AwaitingInput"
    /\ typed' = text
    /\ UNCHANGED <<stream, client, turn, before, stdin, pc, callVars>>

\* lines 37-56: one line of user input
UserInput(text) ==
    /\ state = "AwaitingInput"
    /\ typed' = text
    /\ LET user_input == Strip(text) IN
       IF lower(user_input) = EXIT
       THEN /\ state' = "Closed"
            /\ UNCHANGED <<messages, turn, before, pc, callVars>>
       ELSE IF user_input = <<>>
       THEN UNCHANGED <<state, messages, turn, before, pc, callVars>>
       ELSE /\ turn < MaxTurns
            /\ messages' = add_message(messages, Message("user", user_input))
            /\ before' = messages
            /\ turn' = turn + 1
            /\ state' = "AwaitingCompletion"
            /\ pc' = "call"
            /\ quota' = TurnFrames
            /\ NewCall
            /\ UNCHANGED menu
    /\ UNCHANGED <<stream, client, stdin>>

\* input() raises EOFError when the console is closed; nothing catches it
InputEOF ==
    /\ state \in {"Start", "AwaitingInput"}
    /\ stdin' = "closed"
    /\ state' = "Crashed"
    /\ UNCHANGED <<messages, stream, client, turn, before, typed, pc, callVars>>

ctlVars == <<stream, client, turn, before, typed, stdin>>

----------------------------------------------------------------------------
(* The non-streaming call *)

\* line 63: client.get_completion(conversation.get_messages()), and the rest
\* of the turn
GetCompletion(connected, code, b) ==
    /\ state = "AwaitingCompletion"
    /\ pc = "call"
    /\ ~stream
    /\ status' = IF connected THEN code ELSE 0
    /\ sent' = IF connected THEN <<b>> ELSE <<>>
    /\ EndCallOn(AfterRequest(messages),
                 IF client = "DialClient" THEN LibGetCompletion(connected, code, b)
                 ELSE CustomGetCompletion(connected, code, b))
    /\ UNCHANGED <<ctlVars, menu, quota, pipe, closing, buffer, lost,
                   contents, connection, session>>

----------------------------------------------------------------------------
(* custom_client.py: DialClient.stream_completion *)

InCustomStream == pc = "reading" /\ client = "CustomDialClient"

\* the end of the body has arrived: it follows the last byte the endpoint wrote
AtEof == closing # "open" /\ pipe = <<>>

\* complete lines waiting in the reader
Unread(buf) == Cardinality({i \in DOMAIN buf : buf[i] = LF})

\* variant: the response and the session are closed on the normal path only
ReleaseOnReturn(exc) == IF exc = "" THEN "closed" ELSE "open"

\* what leaving the two async with blocks does to the response and the session
ReleaseOnExit(exc) == "closed"

\* the loop was left (exc = "": by break or by the end of the iteration), the
\* async with blocks exit, lines 134-136 build the result, the turn ends
StreamEnds(exc, cs) ==
    /\ contents' = cs
    /\ connection' = ReleaseOnExit(exc)
    /\ session' = ReleaseOnExit(exc)
    /\ pipe' = <<>>
    /\ buffer' = <<>>
    /\ EndCall(IF exc # "" THEN [exc |-> exc, val |-> <<>>] ELSE Join(cs))
    /\ UNCHANGED <<ctlVars, menu, quota, sent, closing, status>>

\* lines 88-96: the session is created and the request posted; the response
\* headers arrive with any status
CustomStreamOpen(code) ==
    /\ state = "AwaitingCompletion"
    /\ pc = "call"
    /\ stream
    /\ client = "CustomDialClient"
    /\ messages' = AfterRequest(messages)
    /\ session' = "open"
    /\ connection' = "open"
    /\ status' = code
    /\ pc' = "reading"
    /\ UNCHANGED <<state, ctlVars, menu, quota, sent, pipe, closing, buffer,
                   lost, contents, outcome, error>>

\* session.post raises: no connection was made, the session is closed on exit
CustomStreamConnectFail ==
    /\ state = "AwaitingCompletion"
    /\ pc = "call"
    /\ stream
    /\ client = "CustomDialClient"
    /\ session' = ReleaseOnExit("ClientConnectorError")
    /\ EndCallOn(AfterRequest(messages),
                 [exc |-> "ClientConnectorError", val |-> <<>>])
    /\ UNCHANGED <<ctlVars, menu, quota, sent, pipe, closing, buffer, lost,
                   status, contents, connection>>

\* the endpoint writes one frame
ServerSend(k) ==
    /\ InCustomStream
    /\ closing = "open"
    /\ quota > 0
    /\ pipe = <<>>
    /\ Unread(buffer) <= MaxUnread
    /\ k \in menu
    /\ pipe' = LineOf(k)
    /\ sent' = Append(sent, k)
    /\ quota' = quota - 1
    /\ UNCHANGED <<state, messages, ctlVars, pc, menu, closing, buffer, lost,
                   status, contents, connection, session, outcome, error>>

\* frames the endpoint may cut off before the line terminator
CutFrames == {"Hel", "Lo", "Done", "DoneCRLF"}

\* the endpoint writes one frame without its line terminator and closes
ServerSendCut(k) ==
    /\ InCustomStream
    /\ closing = "open"
    /\ quota > 0
    /\ pipe = <<>>
    /\ Unread(buffer) <= MaxUnread
    /\ k \in menu \cap CutFrames
    /\ pipe' = CutLineOf(k)
    /\ sent' = Append(sent, k)
    /\ quota' = quota - 1
    /\ closing' = "cut"
    /\ UNCHANGED <<state, messages, ctlVars, pc, menu, buffer, lost,
                   status, contents, connection, session, outcome, error>>

\* the endpoint closes its side
ServerClose ==
    /\ InCustomStream
    /\ closing = "open"
    /\ pipe = <<>>
    /\ closing' = "closed"
    /\ UNCHANGED <<state, messages, ctlVars, pc, menu, quota, sent, pipe, buffer,
                   lost, status, contents, connection, session, outcome, error>>

\* the sizes the next arrival may have: one byte, or all the bytes in flight.
\* Arrivals with no read between them are one chunk to the reader, so every
\* way of cutting the stream into chunks is a sequence of these.
ArrivalSizes == IF pipe = <<>> THEN {} ELSE {1, Len(pipe)}

\* n more bytes arrive
Arrive(n) ==
    /\ InCustomStream
    /\ n \in ArrivalSizes
    /\ buffer' = buffer \o SubSeq(pipe, 1, n)
    /\ pipe' = SubSeq(pipe, n + 1, Len(pipe))
    /\ UNCHANGED <<state, messages, ctlVars, pc, menu, quota, sent, closing, lost,
                   status, contents, connection, session, outcome, error>>

\* the connection breaks: aiohttp sets an exception on the reader, and the
\* readline the loop is suspended in raises it
ConnectionLost ==
    /\ InCustomStream
    /\ ~AtEof
    /\ lost' = TRUE
    /\ StreamEnds("ClientPayloadError", contents)

\* lines 99-130: the reader hands over the next line and the loop body runs
ReadLine ==
    /\ InCustomStream
    /\ LET r == Readline(buffer, AtEof) IN
       /\ r.ready
       /\ IF r.line = <<>>
          THEN StreamEnds("", contents) /\ UNCHANGED lost
          ELSE LET p == ProcessLine(r.line, contents) IN
               IF p.ctl = "continue"
               THEN /\ contents' = p.contents
                    /\ buffer' = r.rest
                    /\ UNCHANGED <<state, messages, ctlVars, pc, menu, quota, sent,
                                   pipe, closing, lost, status, connection,
                                   session, outcome, error>>
               ELSE StreamEnds(p.exc, p.contents) /\ UNCHANGED lost

----------------------------------------------------------------------------
(* client.py: DialClient.stream_completion *)

InLibStream == pc = "reading" /\ client = "DialClient"

\* frames the library hands over as a chunk object
LibFrames ==
    {"Hel", "Lo", "World", "EmptyContent", "NullContent", "Role", "EmptyChoices"}

\* chunk.choices of the chunk object the library builds from a frame
LibChoices(k) == JsonLoads(PayloadOf(k)).val.v["choices"].v

\* choice.delta.content: None when the delta carries no content
LibDeltaContent(choice) ==
    LET delta == choice.v["delta"] IN
    IF "content" \in DOMAIN delta.v THEN delta.v["content"] ELSE PyNone

\* the truth value of a string or None
Truthy(x) == x.t = "str" /\ x.v # <<>>

\* lines 62-68: the loop body on one chunk
LibProcessChunk(k, cs) ==
    LET choices == LibChoices(k) IN
    IF choices # <<>> /\ Truthy(LibDeltaContent(choices[1]))
    THEN Append(cs, LibDeltaContent(choices[1]))
    ELSE cs

\* lines 52-56: the library opens the stream, or raises on a failed connection
\* or a non-success status
LibStreamOpen(connected, code) ==
    /\ state = "AwaitingCompletion"
    /\ pc = "call"
    /\ stream
    /\ client = "DialClient"
    /\ IF connected /\ code = 200
       THEN /\ status' = code
            /\ pc' = "reading"
            /\ messages' = AfterRequest(messages)
            /\ UNCHANGED <<state, outcome, error>>
       ELSE /\ status' = IF connected THEN code ELSE 0
            /\ EndCallOn(AfterRequest(messages),
                         [exc |-> IF connected THEN "APIStatusError"
                                  ELSE "APIConnectionError",
                          val |-> <<>>])
    /\ UNCHANGED <<ctlVars, menu, quota, sent, pipe, closing, buffer, lost,
                   contents, connection, session>>

\* the endpoint sends a frame and the library yields its chunk
LibChunk(k) ==
    /\ InLibStream
    /\ quota > 0
    /\ k \in menu \cap LibFrames
    /\ sent' = Append(sent, k)
    /\ quota' = quota - 1
    /\ contents' = LibProcessChunk(k, contents)
    /\ UNCHANGED <<state, messages, ctlVars, pc, menu, pipe, closing, buffer,
                   lost, status, connection, session, outcome, error>>

\* the iteration ends, at the [DONE] frame or when the endpoint closes:
\* lines 70-75 build the result and the turn ends
LibStreamEnd(byDone) ==
    /\ InLibStream
    /\ IF byDone
       THEN /\ "Done" \in menu
            /\ sent' = Append(sent, "Done")
            /\ UNCHANGED closing
       ELSE /\ closing' = "closed"
            /\ UNCHANGED sent
    /\ EndCall(Join(contents))
    /\ UNCHANGED <<ctlVars, menu, quota, pipe, buffer, lost, status, contents,
                   connection, session>>

\* the connection breaks and the library raises out of the iteration
LibStreamLost ==
    /\ InLibStream
    /\ lost' = TRUE
    /\ EndCall([exc |-> "APIConnectionError", val |-> <<>>])
    /\ UNCHANGED <<ctlVars, menu, quota, sent, pipe, closing, buffer, status,
                   contents, connection, session>>

----------------------------------------------------------------------------
(* Specifications *)

\* the frames of a streaming call inside the chat loop
TurnMenu == {"Hel", "NullContent", "Done"}

Idle ==
    /\ pc = "idle"
    /\ quota = 0
    /\ sent = <<>>
    /\ pipe = <<>>
    /\ closing = "open"
    /\ buffer = <<>>
    /\ lost = FALSE
    /\ status = 0
    /\ contents = <<>>
    /\ connection = "none"
    /\ session = "none"
    /\ outcome = "none"
    /\ error = ""

\* start(stream) is entered
Init ==
    /\ state = "Start"
    /\ messages = <<>>
    /\ stream \in BOOLEAN
    /\ client \in Clients
    /\ turn = 0
    /\ before = <<>>
    /\ typed = <<>>
    /\ stdin = "open"
    /\ menu = TurnMenu
    /\ Idle

StreamNext ==
    \/ \E code \in Statuses : CustomStreamOpen(code)
    \/ CustomStreamConnectFail
    \/ \E k \in Frames : ServerSend(k)
    \/ \E k \in Frames : ServerSendCut(k)
    \/ ServerClose
    \/ \E n \in ArrivalSizes : Arrive(n)
    \/ ConnectionLost
    \/ ReadLine
    \/ \E connected \in BOOLEAN, code \in Statuses : LibStreamOpen(connected, code)
    \/ \E k \in Frames : LibChunk(k)
    \/ \E byDone \in BOOLEAN : LibStreamEnd(byDone)
    \/ LibStreamLost

Next ==
    \/ \E text \in PromptTexts : SystemPrompt(text)
    \/ \E text \in InputTexts : UserInput(text)
    \/ InputEOF
    \/ \E connected \in BOOLEAN, code \in Statuses, b \in Bodies :
           GetCompletion(connected, code, b)
    \/ StreamNext

Spec == Init /\ [][Next]_vars

\* the frames of one streaming call explored in SpecStream: one of these sets
Menus ==
    {{"Hel", "Lo", "World", "Done"},
     {"Hel", "Malformed", "Lo", "DoneCRLF"},
     {"Lo", "Blank", "Ping", "BareDone"},
     {"Hel", "Role", "NoDelta", "EmptyChoices", "NoChoices"},
     {"NullContent", "EmptyContent", "Number", "Done"}}

\* one streaming call: the first turn of a session, the request about to be sent
SystemMessage == Message("system", DEFAULT_SYSTEM_PROMPT)

InitStream ==
    /\ state = "AwaitingCompletion"
    /\ messages = <<SystemMessage, Message("user", <<"h", "i">>)>>
    /\ stream = TRUE
    /\ client \in Clients
    /\ turn = 1
    /\ before = <<SystemMessage>>
    /\ typed = <<"h", "i">>
    /\ stdin = "open"
    /\ menu \in Menus
    /\ pc = "call"
    /\ quota = MaxFrames
    /\ sent = <<>>
    /\ pipe = <<>>
    /\ closing = "open"
    /\ buffer = <<>>
    /\ lost = FALSE
    /\ status = 0
    /\ contents = <<>>
    /\ connection = "none"
    /\ session = "none"
    /\ outcome = "none"
    /\ error = ""

SpecStream == InitStream /\ [][StreamNext]_vars

----------------------------------------------------------------------------
(* What the endpoint's frames mean, read off the wire format *)

\* the text fragments a frame carries: a delta whose content is a string
Carried(k) ==
    CASE k = "Hel" -> <<<<"H", "e", "l">>>>
      [] k = "Lo" -> <<<<"l", "o">>>>
      [] k = "World" -> <<<<" ", "w", "o", "r", "l", "d">>>>
      [] k = "EmptyContent" -> <<<<>>>>
      [] OTHER -> <<>>

IsDone(k) == k \in {"Done", "DoneCRLF"}

HasDone(s) == \E i \in DOMAIN s : IsDone(s[i])

\* the frames before the first [DONE] frame
BeforeDone(s) ==
    LET dones == {i \in DOMAIN s : IsDone(s[i])} IN
    IF dones = {} THEN s
    ELSE SubSeq(s, 1, (CHOOSE i \in dones : \A j \in dones : i <= j) - 1)

\* the fragments of the frames before the first [DONE] frame, in order
Fragments(s) == Flatten([i \in DOMAIN BeforeDone(s) |-> Carried(BeforeDone(s)[i])])

\* the text of the collected snippets
Texts(cs) == [i \in DOMAIN cs |-> cs[i].v]

\* the bytes of a sequence of frames
BytesOf(s) == Flatten([i \in DOMAIN s |-> LineOf(s[i])])

\* the bytes the endpoint has written in this call
StreamBytes ==
    Flatten([i \in DOMAIN sent |->
                IF i = Len(sent) /\ closing = "cut" THEN CutLineOf(sent[i])
                ELSE LineOf(sent[i])])

\* the read loop run over bytes that are all there, followed by EOF
RECURSIVE RunLoop(_, _)
RunLoop(buf, cs) ==
    LET r == Readline(buf, TRUE) IN
    IF r.line = <<>> THEN [exc |-> "", contents |-> cs]
    ELSE LET p == ProcessLine(r.line, cs) IN
         IF p.ctl = "continue" THEN RunLoop(r.rest, p.contents)
         ELSE [exc |-> p.exc, contents |-> p.contents]

\* a streaming call of the hand-written client has its response
CustomStreamed == stream /\ client = "CustomDialClient" /\ status # 0

\* ... and has ended, the connection not having been lost
CustomFinished == CustomStreamed /\ pc = "idle" /\ ~lost

----------------------------------------------------------------------------
(* Claims *)

\* C1: a turn that started with ledger H ends, back in AwaitingInput, with the
\* ledger equal to H when the completion call raised and equal to H followed by
\* the User message and one Assistant message when it returned; never with
\* only the User message kept.
C1_TurnAllOrNothing ==
    (state = "AwaitingInput" /\ outcome # "none") =>
        /\ outcome = "raised" => messages = before
        /\ outcome = "returned" =>
              /\ Len(messages) = Len(before) + 2
              /\ SubSeq(messages, 1, Len(before)) = before
              /\ messages[Len(before) + 1].role = "user"
              /\ messages[Len(before) + 2].role = "assistant"
        /\ Len(messages) # Len(before) + 1

\* a second turn that failed after a first one that succeeded
C1_Witness ==
    /\ state = "AwaitingInput"
    /\ outcome = "raised"
    /\ turn = 2
    /\ Len(before) = 3
    /\ messages = before

\* C2: whatever the chunks in which the bytes arrive, the snippets collected
\* are those of the read loop run over the bytes taken in so far as one piece:
\* while a partial line is held back, and when the call has ended (then with
\* the same error, if any).
C2_ChunkIndependent ==
    (CustomStreamed /\ ~lost) =>
        LET taken == SubSeq(StreamBytes, 1, Len(StreamBytes) - Len(pipe) - Len(buffer))
            whole == RunLoop(IF pc = "idle" THEN StreamBytes ELSE taken, <<>>)
        IN  /\ contents = whole.contents
            /\ pc = "idle" =>
                  error = IF whole.exc # "" THEN whole.exc ELSE Join(whole.contents).exc

\* a chunk ended inside the 'data: ' prefix of the second line
C2_Witness ==
    /\ CustomStreamed
    /\ pc = "reading"
    /\ Len(sent) = 2
    /\ Len(contents) = 1
    /\ buffer # <<>>
    /\ Len(buffer) < Len(PREFIX)
    /\ buffer = SubSeq(PREFIX, 1, Len(buffer))
    /\ pipe # <<>>

\* C3: a streaming call whose response status is not a success raises.
C3_NonSuccessRaises ==
    (stream /\ pc = "idle" /\ outcome # "none" /\ status \notin {0, 200}) =>
        outcome = "raised"

\* C4: frames whose payload does not parse as JSON are dropped: a stream with
\* such frames returns, with the fragments of its other frames in order.
C4_MalformedDropped ==
    (CustomFinished /\ \E i \in DOMAIN sent : sent[i] = "Malformed") =>
        /\ outcome = "returned"
        /\ Texts(contents) = Fragments(SelectSeq(sent, LAMBDA k : k # "Malformed"))

\* valid, malformed, valid
C4_Witness ==
    /\ CustomFinished
    /\ sent = <<"Hel", "Malformed", "Lo">>
    /\ outcome = "returned"
    /\ Texts(contents) = <<<<"H", "e", "l">>, <<"l", "o">>>>

\* C5: a frame whose payload parses emits a fragment exactly when it has a
\* non-empty choices list whose first element has a delta with a content
\* string; any other shape emits nothing and never makes the call raise.
C5_ShapeTolerant ==
    (CustomFinished /\ ~(\E i \in DOMAIN sent : sent[i] = "Malformed")) =>
        /\ outcome = "returned"
        /\ Texts(contents) = Fragments(sent)

\* C6: the first [DONE] frame ends the fragment sequence: what the call
\* collects, and how it ends, is what the frames before that [DONE] alone
\* give, so no frame after it adds anything; a call that returns holds the
\* fragments of the frames before it; a stream that is only [DONE] returns
\* with no fragment.
C6_DoneTerminates ==
    (CustomFinished /\ HasDone(sent)) =>
        LET upto == RunLoop(BytesOf(BeforeDone(sent)), <<>>) IN
        /\ contents = upto.contents
        /\ error = IF upto.exc # "" THEN upto.exc ELSE Join(upto.contents).exc
        /\ outcome = "returned" => Texts(contents) = Fragments(BeforeDone(sent))
        /\ IsDone(sent[1]) =>
              /\ outcome = "returned"
              /\ contents = <<>>
              /\ messages[Len(messages)].content = <<>>

\* a frame was sent after [DONE]
C6_Witness ==
    /\ CustomFinished
    /\ sent = <<"Hel", "Done", "Lo">>
    /\ outcome = "returned"
    /\ messages[Len(messages)].content = <<"H", "e", "l">>

\* C7: when the source closes before any [DONE] frame, the call returns an
\* Assistant message built from the fragments emitted so far.
C7_EarlyCloseReturns ==
    (stream /\ pc = "idle" /\ outcome # "none" /\ status = 200 /\ ~lost
        /\ closing # "open" /\ ~HasDone(sent)) =>
        /\ outcome = "returned"
        /\ messages[Len(messages)] = Message("assistant", Flatten(Fragments(sent)))

\* C8: the content of the Assistant message a streaming call returns is the
\* concatenation, in arrival order, of the fragments of the frames read.
C8_ContentIsConcatenation ==
    (stream /\ pc = "idle" /\ outcome = "returned" /\ status # 0) =>
        messages[Len(messages)] = Message("assistant", Flatten(Fragments(sent)))

\* 'Hel', 'lo', ' world' gives 'Hello world'
C8_Witness ==
    /\ stream
    /\ pc = "idle"
    /\ outcome = "returned"
    /\ client = "CustomDialClient"
    /\ sent = <<"Hel", "Lo", "World">>
    /\ messages[Len(messages)].content =
           <<"H", "e", "l", "l", "o", " ", "w", "o", "r", "l", "d">>

\* C9: a non-streaming response with an empty choices list makes
\* get_completion raise, with either client, and the turn ends with the
\* ledger as it was before the turn.
C9_EmptyChoicesRaises ==
    (~stream /\ outcome # "none" /\ sent = <<"EmptyChoices">>) =>
        /\ outcome = "raised"
        /\ messages = before

\* an empty choices list under status 200, with the library client
C9_Witness ==
    /\ ~stream
    /\ client = "DialClient"
    /\ sent = <<"EmptyChoices">>
    /\ status = 200
    /\ outcome = "raised"
    /\ state = "AwaitingInput"

\* C10: once stream_completion has returned or raised, neither the response
\* nor the session is open; a response that was opened is closed.
C10_ConnectionReleased ==
    (stream /\ client = "CustomDialClient" /\ pc = "idle" /\ outcome # "none") =>
        /\ connection # "open"
        /\ session = "closed"
        /\ status # 0 => connection = "closed"

\* the loop body raised
C10_Witness ==
    /\ CustomStreamed
    /\ pc = "idle"
    /\ outcome = "raised"
    /\ error = "TypeError"
    /\ sent = <<"Number">>
    /\ connection = "closed"

----------------------------------------------------------------------------
(* The console, read off what was typed *)

\* the text is empty or whitespace only
IsBlank(t) == \A i \in DOMAIN t : t[i] \in Whitespace

\* the text is the word exit, in any letter case, inside surrounding whitespace
IsExitWord(t) ==
    \E i \in 0..Len(t) :
        /\ i + 4 <= Len(t)
        /\ \A j \in 1..i : t[j] \in Whitespace
        /\ \A j \in (i + 5)..Len(t) : t[j] \in Whitespace
        /\ t[i + 1] \in {"e", "E"}
        /\ t[i + 2] \in {"x", "X"}
        /\ t[i + 3] \in {"i", "I"}
        /\ t[i + 4] \in {"t", "T"}

\* c is the text t without its surrounding whitespace, t not being blank
IsTrimmed(c, t) ==
    /\ c # <<>>
    /\ c[1] \notin Whitespace
    /\ c[Len(c)] \notin Whitespace
    /\ \E i \in 0..(Len(t) - Len(c)) :
          /\ SubSeq(t, i + 1, i + Len(c)) = c
          /\ \A j \in (1..i) \cup ((i + Len(c) + 1)..Len(t)) : t[j] \in Whitespace

\* the ledger is a System message followed by User and Assistant in turn
Alternates(ms) ==
    /\ ms # <<>>
    /\ ms[1].role = "system"
    /\ \A i \in 2..Len(ms) : ms[i].role = IF i % 2 = 0 THEN "user" ELSE "assistant"

\* C11: every completion call that raises ends its turn with the controller
\* in AwaitingInput and the ledger rolled back to what it was before the
\* turn; the session is neither closed nor crashed by it.
C11_FailureKeepsSession ==
    [][(pc # "idle" /\ outcome' = "raised") =>
          /\ state' = "AwaitingInput"
          /\ messages' = before
          /\ pc' = "idle"]_vars

\* a turn succeeded after a turn that failed
C11_Witness ==
    /\ state = "AwaitingInput"
    /\ turn = 2
    /\ outcome = "returned"
    /\ Len(before) = 1
    /\ Len(messages) = 3

\* C12: a line that is the word exit in any letter case, read in
\* AwaitingInput, closes the session with the ledger and the call state left
\* as they were; the session closes on such a line only; nothing happens
\* once it is Closed.
C12_ExitCloses ==
    [][/\ (state = "AwaitingInput" /\ state' # "Crashed" /\ IsExitWord(typed')) =>
             (state' = "Closed" /\ UNCHANGED <<messages, turn, pc, callVars>>)
       /\ state' = "Closed" => (state = "AwaitingInput" /\ IsExitWord(typed'))
       /\ state # "Closed"]_vars

\* ' ExiT' typed after one answered turn
C12_Witness ==
    /\ state = "Closed"
    /\ typed = <<" ", "E", "x", "i", "T">>
    /\ Len(messages) = 3
    /\ pc = "idle"

\* C13: when the console is closed the session is Closed, and the ledger does
\* not end with an unanswered User message.
C13_EOFClosesGracefully ==
    stdin = "closed" =>
        /\ state = "Closed"
        /\ messages # <<>> => messages[Len(messages)].role # "user"

\* C14: once the System message is added the ledger is never empty and keeps
\* that message first; the ledger shrinks only by the rollback, which takes
\* away the one User message of the turn and leaves the ledger of before the
\* turn, at least the System message.
C14_SystemFirst ==
    /\ [](state \in {"AwaitingInput", "AwaitingCompletion", "Closed"} =>
            (messages # <<>> /\ messages[1].role = "system"))
    /\ [][messages # <<>> => (messages' # <<>> /\ messages'[1] = messages[1])]_vars
    /\ [][Len(messages') < Len(messages) =>
            /\ outcome' = "raised"
            /\ messages[Len(messages)].role = "user"
            /\ messages' = before
            /\ Len(messages') = Len(messages) - 1
            /\ Len(messages') >= 1]_vars

\* a rollback with an answered turn in the ledger
C14_Witness ==
    /\ state = "AwaitingInput"
    /\ outcome = "raised"
    /\ Len(messages) = 3
    /\ messages[1].role = "system"
    /\ messages[3].role = "assistant"

\* C15: a blank line read in AwaitingInput changes neither the state, the
\* ledger nor the call state; the controller enters AwaitingCompletion only
\* from AwaitingInput, on a line that is neither blank nor the exit word,
\* appending that line, trimmed, as a User message.
C15_BlankInputIgnored ==
    [][/\ (state = "AwaitingInput" /\ state' # "Crashed" /\ IsBlank(typed')) =>
             UNCHANGED <<state, messages, turn, pc, callVars>>
       /\ (state' = "AwaitingCompletion" /\ state # "AwaitingCompletion") =>
             /\ state = "AwaitingInput"
             /\ ~IsBlank(typed')
             /\ ~IsExitWord(typed')
             /\ Len(messages') = Len(messages) + 1
             /\ SubSeq(messages', 1, Len(messages)) = messages
             /\ messages'[Len(messages')].role = "user"
             /\ IsTrimmed(messages'[Len(messages')].content, typed')]_vars

\* a whitespace-only line typed after an answered turn
C15_Witness ==
    /\ state = "AwaitingInput"
    /\ typed = <<" ">>
    /\ turn = 1
    /\ Len(messages) = 3
    /\ pc = "idle"

\* lines that are no data frame: blank, a comment, the sentinel without prefix
IsNonData(k) == k \in {"Blank", "Ping", "BareDone"}

IsData(k) == ~IsNonData(k)

\* the frames of s that are data frames
WithoutNonData(s) == SelectSeq(s, IsData)

\* C16: blank lines and lines without the prefix 'data: ' add no fragment and
\* do not end the stream: the call collects, and ends, as on the same stream
\* with those lines taken out, and a call that returns holds the fragments of
\* the data frames; a bare '[DONE]' line does not end the stream.
C16_NonDataIgnored ==
    CustomFinished =>
        LET plain == RunLoop(BytesOf(WithoutNonData(sent)), <<>>) IN
        /\ contents = plain.contents
        /\ error = IF plain.exc # "" THEN plain.exc ELSE Join(plain.contents).exc
        /\ outcome = "returned" =>
              messages[Len(messages)].content =
                  Flatten(Fragments(WithoutNonData(sent)))

\* a blank line and a bare '[DONE]', then a fragment
C16_Witness ==
    /\ CustomFinished
    /\ sent = <<"Blank", "BareDone", "Lo">>
    /\ outcome = "returned"
    /\ messages[Len(messages)].content = <<"l", "o">>

\* C17: during a completion call the ledger is the ledger of before the turn
\* followed by the User message, and no step of the call changes it; the
\* ledger changes only by the controller: the append of the System or the
\* User message outside a call, and at the end of a call the append of the
\* Assistant message or the removal of the last message.
C17_CallLeavesLedger ==
    /\ [](pc # "idle" =>
            /\ Len(messages) = Len(before) + 1
            /\ SubSeq(messages, 1, Len(before)) = before
            /\ messages[Len(messages)].role = "user")
    /\ [][(pc # "idle" /\ pc' # "idle") => messages' = messages]_vars
    /\ [][messages' # messages =>
            \/ /\ pc = "idle"
               /\ state \in {"Start", "AwaitingInput"}
               /\ Len(messages') = Len(messages) + 1
               /\ SubSeq(messages', 1, Len(messages)) = messages
               /\ messages'[Len(messages')].role \in {"system", "user"}
            \/ /\ pc # "idle"
               /\ pc' = "idle"
               /\ outcome' = "returned"
               /\ Len(messages') = Len(messages) + 1
               /\ SubSeq(messages', 1, Len(messages)) = messages
               /\ messages'[Len(messages')].role = "assistant"
            \/ /\ pc # "idle"
               /\ pc' = "idle"
               /\ outcome' = "raised"
               /\ messages' = SubSeq(messages, 1, Len(messages) - 1)]_vars

\* a streaming call under way, a snippet collected
C17_Witness ==
    /\ state = "AwaitingCompletion"
    /\ pc = "reading"
    /\ contents # <<>>
    /\ Len(messages) = Len(before) + 1

\* C18: in AwaitingInput the ledger is the System message followed by
\* (User, Assistant) pairs, of odd length; in AwaitingCompletion it is such a
\* ledger followed by one User message.
C18_RolesAlternate ==
    /\ state = "AwaitingInput" => (Alternates(messages) /\ Len(messages) % 2 = 1)
    /\ state = "AwaitingCompletion" => (Alternates(messages) /\ Len(messages) % 2 = 0)

\* two answered turns
C18_Witness ==
    /\ state = "AwaitingInput"
    /\ turn = 2
    /\ Len(messages) = 5
    /\ Alternates(messages)

\* client.py lines 58-68 on the chunks of the frames s, one after the other
RECURSIVE LibRun(_, _)
LibRun(s, cs) ==
    IF s = <<>> THEN cs ELSE LibRun(Tail(s), LibProcessChunk(Head(s), cs))

\* what the library-based stream_completion gives on the frames s
LibStreamResult(s) == Join(LibRun(BeforeDone(s), <<>>))

\* what the hand-written stream_completion gives on the frames s
CustomStreamResult(s) ==
    LET r == RunLoop(BytesOf(s), <<>>) IN
    IF r.exc # "" THEN [exc |-> r.exc, val |-> <<>>] ELSE Join(r.contents)

\* C19: on a stream of well-formed chunk frames under status 200, a streaming
\* call ends as the other client's stream_completion ends on the same frames:
\* both return, with the same content, or both raise.
C19_Interchangeable ==
    (/\ stream
     /\ pc = "idle"
     /\ outcome # "none"
     /\ status = 200
     /\ ~lost
     /\ closing # "cut"
     /\ \A i \in DOMAIN sent : sent[i] \in LibFrames \cup {"Done"}) =>
        LET other == IF client = "DialClient" THEN CustomStreamResult(sent)
                     ELSE LibStreamResult(sent)
        IN  /\ (outcome = "returned") = (other.exc = "")
            /\ outcome = "returned" => messages[Len(messages)].content = other.val

====
